---- MODULE Spec2Model ----
(***************************************************************************)
(* Model of app.py: the field normaliser (normalize_flag, get_risk_level,  *)
(* safe_str, format_risk_flag), the two report renderings (generate_pdf,   *)
(* render_report_preview) and the page script with its session state       *)
(* (search, selection, download, preview).                                 *)
(*                                                                         *)
(* A Python str is a sequence of one-character strings, so that strip(),   *)
(* lower() and str() are computed and not assumed.  A Python value is a    *)
(* record carrying its run-time type, because the code branches on         *)
(* isinstance().                                                           *)
(***************************************************************************)
EXTENDS Integers, Sequences, FiniteSets, TLC

VARIABLES
    value,            \* the argument of normalize_flag / safe_str / format_risk_flag
    normalized,       \* what normalize_flag(value) returned
    text,             \* what safe_str(value) returned
    label,            \* what format_risk_flag(value) returned
    called,           \* the functions that have been applied so far
    housing_risk,     \* the three arguments of get_risk_level
    impairment_risk,
    mmh_risk,
    risk_level,       \* what get_risk_level returned
    risk_labels,      \* what format_risk_flag returned for each of the three flags
    data_row,         \* the record handed to the renderers (key -> value)
    pdf,              \* the story generate_pdf handed to doc.build
    preview,          \* the streamlit calls render_report_preview made
    text_again,       \* what safe_str returned for the string it had returned
    generated_at,     \* <<t>>: generate_pdf read the time t from the clock; <<>> before
    logo_found,       \* whether PDFHeader.draw found assets/logo.png and drew it
    pdf_again,        \* the same three for a second generate_pdf of the same record
    generated_at_again,
    logo_found_again,
    preview_again,    \* the streamlit calls of a second render_report_preview
    \* st.session_state; None is <<>> and a value x is <<x>>
    search_results,       \* the DataFrame of the last search: the client ids of its rows
    selected_row_index,   \* the 0-based index of the ticked row
    report_data,          \* the record whose preview is shown
    selection_mask,       \* one boolean per row of search_results
    \* the widgets and the locals of the script run in progress
    pc,                   \* the section of the script that runs next ("idle": none)
    client_name_input,
    client_nhi_input,
    report_date_input,
    search_clicked,
    preview_clicked,
    df,                   \* <<d>>: search_client_data returned d in this run
    edited_mask,          \* the Select column st.data_editor returned
    has_selection,
    report_df,            \* what load_report_data returned in the download section
    on_page,             \* the messages and buttons this run put on the page
    report_before         \* report_data when the run started

\* what a second rendering of the record produces
againVars == <<pdf_again, generated_at_again, logo_found_again, preview_again>>

sessionVars == <<search_results, selected_row_index, report_data, selection_mask>>

inputVars == <<client_name_input, client_nhi_input, report_date_input>>

runVars == <<pc, search_clicked, preview_clicked, df, edited_mask,
             has_selection, report_df, on_page, report_before>>

vars == <<value, normalized, text, label, called, housing_risk, impairment_risk,
          mmh_risk, risk_level, risk_labels, data_row, pdf, preview, text_again,
          generated_at, logo_found, againVars, sessionVars, inputVars, runVars>>

\* the variables that the calls of the normaliser and the preview of a record
\* leave alone
restVars == <<text_again, generated_at, logo_found, againVars, sessionVars, inputVars,
              runVars>>

AgainIdle ==
    /\ pdf_again = <<>>
    /\ generated_at_again = <<>>
    /\ logo_found_again = FALSE
    /\ preview_again = <<>>

\* the session state as the first script run initialises it
SessionInit ==
    /\ search_results = <<>>
    /\ selected_row_index = <<>>
    /\ report_data = <<>>
    /\ selection_mask = <<>>

\* no script run in progress, the widgets untouched
PageIdle ==
    /\ pc = "idle"
    /\ client_name_input = <<>>
    /\ client_nhi_input = <<>>
    /\ report_date_input = <<>>
    /\ search_clicked = FALSE
    /\ preview_clicked = FALSE
    /\ df = <<>>
    /\ edited_mask = <<>>
    /\ has_selection = FALSE
    /\ report_df = <<>>
    /\ on_page = {}
    /\ report_before = <<>>

RestIdle ==
    /\ text_again = <<>>
    /\ generated_at = <<>>
    /\ logo_found = FALSE
    /\ AgainIdle
    /\ SessionInit
    /\ PageIdle

---------------------------------------------------------------------------
(* Bounds of the model *)

\* longest run of whitespace put before and after a flag word
MaxPad == 1
\* numeric inputs range over -1 .. MaxNum
MaxNum == 2
\* at most this many fields of a record are absent, None or NaN
MaxMissing == 1
\* a search returns at most this many rows
MaxRows == 2

---------------------------------------------------------------------------
(* Python values *)

Val(t, b, n, nan, s) == [type |-> t, b |-> b, n |-> n, nan |-> nan, s |-> s]

PyNone      == Val("NoneType", FALSE, 0, FALSE, <<>>)
PyBool(b)   == Val("bool", b, 0, FALSE, <<>>)
PyInt(n)    == Val("int", FALSE, n, FALSE, <<>>)
\* the float n.0
PyFloat(n)  == Val("float", FALSE, n, FALSE, <<>>)
PyNaN       == Val("float", FALSE, 0, TRUE, <<>>)
PyStr(s)    == Val("str", FALSE, 0, FALSE, s)
\* what a row of a DataFrame carries for a bool / int64 / float64 column
NpBool(b)   == Val("numpy.bool_", b, 0, FALSE, <<>>)
NpInt(n)    == Val("numpy.int64", FALSE, n, FALSE, <<>>)
NpFloat(n)  == Val("numpy.float64", FALSE, n, FALSE, <<>>)
NpNaN       == Val("numpy.float64", FALSE, 0, TRUE, <<>>)
\* what a DECIMAL column carries
PyDecimal(n) == Val("decimal.Decimal", FALSE, n, FALSE, <<>>)
\* pandas' missing-value singleton
PdNA        == Val("NAType", FALSE, 0, FALSE, <<>>)

\* a calendar value: a Val with the fields of the date and the time of day
DateVal(t, d) ==
    [type |-> t, b |-> FALSE, n |-> 0, nan |-> FALSE, s |-> <<>>, dt |-> d]

\* datetime.date has no time of day
PyDate(d)      == DateVal("datetime.date", [d EXCEPT !.h = 0, !.mi = 0, !.sec = 0])
PyDatetime(d)  == DateVal("datetime.datetime", d)
\* what a row of a DataFrame carries for a DATE / TIMESTAMP column
PdTimestamp(d) == DateVal("pandas.Timestamp", d)
PdNaT          == Val("NaTType", FALSE, 0, FALSE, <<>>)

\* isinstance(v, cls): numpy.float64 derives from float, bool from int;
\* numpy.bool_ and numpy.int64 derive from neither bool nor int
IsInstance(v, cls) ==
    CASE cls = "bool"  -> v.type = "bool"
      [] cls = "int"   -> v.type \in {"int", "bool"}
      [] cls = "float" -> v.type \in {"float", "numpy.float64"}
      [] cls = "str"   -> v.type = "str"
      [] OTHER         -> FALSE

\* pd.isna(v) for a scalar
pd_isna(v) ==
    \/ v.type = "NoneType"
    \/ v.type = "NAType"
    \/ v.type = "NaTType"
    \/ v.type \in {"float", "numpy.float64"} /\ v.nan

\* bool(v) for a number: NaN is truthy, zero is not
Truthy(v) == v.nan \/ v.n # 0

---------------------------------------------------------------------------
(* Python strings *)

Whitespace == {" ", "\t", "\n"}

LowerChar(c) ==
    CASE c = "A" -> "a" [] c = "B" -> "b" [] c = "E" -> "e" [] c = "F" -> "f"
      [] c = "L" -> "l" [] c = "M" -> "m" [] c = "N" -> "n" [] c = "O" -> "o"
      [] c = "R" -> "r" [] c = "S" -> "s" [] c = "T" -> "t" [] c = "U" -> "u"
      [] c = "Y" -> "y"
      [] OTHER -> c

UpperChar(c) ==
    CASE c = "a" -> "A" [] c = "b" -> "B" [] c = "e" -> "E" [] c = "f" -> "F"
      [] c = "l" -> "L" [] c = "m" -> "M" [] c = "n" -> "N" [] c = "o" -> "O"
      [] c = "r" -> "R" [] c = "s" -> "S" [] c = "t" -> "T" [] c = "u" -> "U"
      [] c = "y" -> "Y"
      [] OTHER -> c

\* s.lower()
Lower(s) == [i \in 1..Len(s) |-> LowerChar(s[i])]

RECURSIVE LStrip(_)
LStrip(s) == IF s # <<>> /\ Head(s) \in Whitespace THEN LStrip(Tail(s)) ELSE s

RECURSIVE RStrip(_)
RStrip(s) ==
    IF s # <<>> /\ s[Len(s)] \in Whitespace
    THEN RStrip(SubSeq(s, 1, Len(s) - 1))
    ELSE s

\* s.strip()
Strip(s) == RStrip(LStrip(s))

DigitChar(d) ==
    CASE d = 0 -> "0" [] d = 1 -> "1" [] d = 2 -> "2" [] d = 3 -> "3"
      [] d = 4 -> "4" [] d = 5 -> "5" [] d = 6 -> "6" [] d = 7 -> "7"
      [] d = 8 -> "8" [] d = 9 -> "9"

RECURSIVE NatStr(_)
NatStr(n) == IF n < 10 THEN <<DigitChar(n)>> ELSE NatStr(n \div 10) \o <<DigitChar(n % 10)>>

\* str(n) for an int
IntStr(n) == IF n < 0 THEN <<"-">> \o NatStr(-n) ELSE NatStr(n)

\* "%02d" % n
Pad2(n) == IF n < 10 THEN <<"0">> \o NatStr(n) ELSE NatStr(n)

\* "%04d" % n
Pad4(n) ==
    IF n < 10 THEN <<"0","0","0">> \o NatStr(n)
    ELSE IF n < 100 THEN <<"0","0">> \o NatStr(n)
    ELSE IF n < 1000 THEN <<"0">> \o NatStr(n)
    ELSE NatStr(n)

\* date.isoformat()
IsoDate(d) == Pad4(d.y) \o <<"-">> \o Pad2(d.mo) \o <<"-">> \o Pad2(d.d)

\* datetime.isoformat(sep=" ") of a value with no microseconds
IsoDatetime(d) ==
    IsoDate(d) \o <<" ">> \o Pad2(d.h) \o <<":">> \o Pad2(d.mi) \o <<":">> \o Pad2(d.sec)

\* str(v) for the values safe_str passes on to it
PyStrOf(v) ==
    CASE v.type = "str"                           -> v.s
      [] v.type \in {"bool", "numpy.bool_"}       -> IF v.b THEN <<"T","r","u","e">>
                                                            ELSE <<"F","a","l","s","e">>
      [] v.type \in {"int", "numpy.int64", "decimal.Decimal"} -> IntStr(v.n)
      [] v.type \in {"float", "numpy.float64"}    -> IF v.nan THEN <<"n","a","n">>
                                                     ELSE IntStr(v.n) \o <<".","0">>
      [] v.type = "NoneType"                      -> <<"N","o","n","e">>
      [] v.type = "NAType"                        -> <<"<","N","A",">">>
      [] v.type = "datetime.date"                 -> IsoDate(v.dt)
      [] v.type \in {"datetime.datetime", "pandas.Timestamp"} -> IsoDatetime(v.dt)
      [] v.type = "NaTType"                       -> <<"N","a","T">>

---------------------------------------------------------------------------
(* Field normaliser *)

TrueWords ==
    { <<"t","r","u","e">>, <<"t">>, <<"1">>, <<"y","e","s">>, <<"y">> }

FalseWords ==
    { <<"f","a","l","s","e">>, <<"f">>, <<"0">>, <<"n","o">>, <<"n">>, <<>> }

\* a slip: the string is lower-cased but not stripped
normalize_flag_nostrip(flag) ==
    IF IsInstance(flag, "bool") THEN flag.b
    ELSE IF flag.type = "NoneType" \/ (IsInstance(flag, "float") /\ pd_isna(flag)) THEN FALSE
    ELSE IF IsInstance(flag, "int") \/ IsInstance(flag, "float") THEN Truthy(flag)
    ELSE IF IsInstance(flag, "str") THEN Lower(flag.s) \in TrueWords
    ELSE FALSE

\* a slip: the None/NaN test is left out, so NaN reaches bool()
normalize_flag_nonan(flag) ==
    IF IsInstance(flag, "bool") THEN flag.b
    ELSE IF flag.type = "NoneType" THEN FALSE
    ELSE IF IsInstance(flag, "int") \/ IsInstance(flag, "float") THEN Truthy(flag)
    ELSE IF IsInstance(flag, "str") THEN Lower(Strip(flag.s)) \in TrueWords
    ELSE FALSE

normalize_flag(flag) ==
    IF IsInstance(flag, "bool") THEN flag.b
    ELSE IF flag.type = "NoneType" \/ (IsInstance(flag, "float") /\ pd_isna(flag)) THEN FALSE
    ELSE IF IsInstance(flag, "int") \/ IsInstance(flag, "float") THEN Truthy(flag)
    ELSE IF IsInstance(flag, "str") THEN
        LET v == Lower(Strip(flag.s)) IN
        IF v \in TrueWords THEN TRUE
        ELSE IF v \in FalseWords THEN FALSE
        ELSE FALSE
    ELSE FALSE

HIGH_RISK     == <<"H","I","G","H"," ","R","I","S","K">>
MODERATE_RISK == <<"M","O","D","E","R","A","T","E"," ","R","I","S","K">>
LOW_RISK      == <<"L","O","W"," ","R","I","S","K">>

\* sum() of a list of bools
SumFlags(flags) == Cardinality({i \in DOMAIN flags : flags[i]})

\* a slip: the HIGH threshold is 3 and not 2
get_risk_level_gt2(housing, impairment, mmh) ==
    LET flags == <<normalize_flag(housing), normalize_flag(impairment), normalize_flag(mmh)>>
        risk_count == SumFlags(flags)
    IN  IF risk_count > 2 THEN HIGH_RISK
        ELSE IF risk_count = 1 THEN MODERATE_RISK
        ELSE LOW_RISK

get_risk_level(housing, impairment, mmh) ==
    LET flags == <<normalize_flag(housing), normalize_flag(impairment), normalize_flag(mmh)>>
        risk_count == SumFlags(flags)
    IN  IF risk_count >= 2 THEN HIGH_RISK
        ELSE IF risk_count = 1 THEN MODERATE_RISK
        ELSE LOW_RISK

NotAvailable == <<"N","o","t"," ","a","v","a","i","l","a","b","l","e">>
NotAssessed  == <<"N","o","t"," ","a","s","s","e","s","s","e","d">>

\* a slip: only None is caught, NaN goes to str()
safe_str_noneonly(v) ==
    IF v.type = "NoneType" THEN NotAvailable ELSE PyStrOf(v)

\* a slip: repr() is used for str(), so a string comes back in quotes
safe_str_repr(v) ==
    IF pd_isna(v) \/ v.type = "NoneType" THEN NotAvailable
    ELSE IF v.type = "str" THEN <<"'">> \o v.s \o <<"'">> ELSE PyStrOf(v)

safe_str(v) ==
    IF pd_isna(v) \/ v.type = "NoneType" THEN NotAvailable ELSE PyStrOf(v)

\* a slip: a missing flag is not told apart from a False one
format_risk_flag_nonull(flag) ==
    IF normalize_flag(flag) THEN HIGH_RISK ELSE LOW_RISK

format_risk_flag(flag) ==
    IF flag.type = "NoneType" \/ (IsInstance(flag, "float") /\ pd_isna(flag))
    THEN NotAssessed
    ELSE IF normalize_flag(flag) THEN HIGH_RISK ELSE LOW_RISK

---------------------------------------------------------------------------
(* Inputs of the normaliser *)

OtherWords ==
    { <<"m","a","y","b","e">>, <<"o","n">>, <<"2">>, <<"t"," ","r","u","e">>,
      <<"n","a","n">> }

\* w with the characters at the positions in m upper-cased
Variant(w, m) == [i \in 1..Len(w) |-> IF i \in m THEN UpperChar(w[i]) ELSE w[i]]

Pads == UNION { [1..k -> Whitespace] : k \in 0..MaxPad }

FlagStrings ==
    { p \o v \o q :
        p \in Pads, q \in Pads,
        v \in UNION { { Variant(w, m) : m \in SUBSET (1..Len(w)) } :
                      w \in TrueWords \cup FalseWords \cup OtherWords } }

Numbers == (0 - 1)..MaxNum

Scalars ==
    {PyNone, PyNaN, NpNaN, PdNA}
    \cup { PyBool(b) : b \in BOOLEAN } \cup { NpBool(b) : b \in BOOLEAN }
    \cup { PyInt(n) : n \in Numbers } \cup { NpInt(n) : n \in Numbers }
    \cup { PyFloat(n) : n \in Numbers } \cup { NpFloat(n) : n \in Numbers }
    \cup { PyDecimal(n) : n \in Numbers }

FlagInputs == Scalars \cup { PyStr(s) : s \in FlagStrings }

\* midnight, a morning and the last second of a year
Moments ==
    { [y |-> 2024, mo |-> 3, d |-> 1, h |-> 0, mi |-> 0, sec |-> 0],
      [y |-> 2024, mo |-> 3, d |-> 1, h |-> 9, mi |-> 5, sec |-> 7],
      [y |-> 2024, mo |-> 12, d |-> 31, h |-> 23, mi |-> 59, sec |-> 59] }

DateInputs ==
    {PdNaT} \cup { PyDate(m) : m \in Moments } \cup { PyDatetime(m) : m \in Moments }
    \cup { PdTimestamp(m) : m \in Moments }

---------------------------------------------------------------------------
(* The normaliser applied to one value *)

NoRow == [k \in {} |-> PyNone]

InitFlag ==
    /\ value \in FlagInputs \cup DateInputs
    /\ normalized = FALSE
    /\ text = <<>>
    /\ label = <<>>
    /\ called = {}
    /\ housing_risk = PyNone
    /\ impairment_risk = PyNone
    /\ mmh_risk = PyNone
    /\ risk_level = <<>>
    /\ risk_labels = <<>>
    /\ data_row = NoRow
    /\ pdf = <<>>
    /\ preview = <<>>
    /\ RestIdle

CallNormalizeFlag ==
    /\ "normalize_flag" \notin called
    /\ normalized' = normalize_flag(value)
    /\ called' = called \cup {"normalize_flag"}
    /\ UNCHANGED <<value, text, label, housing_risk, impairment_risk, mmh_risk,
                   risk_level, risk_labels, data_row, pdf, preview>>
    /\ UNCHANGED restVars

CallSafeStr ==
    /\ "safe_str" \notin called
    /\ text' = safe_str(value)
    /\ called' = called \cup {"safe_str"}
    /\ UNCHANGED <<value, normalized, label, housing_risk, impairment_risk, mmh_risk,
                   risk_level, risk_labels, data_row, pdf, preview>>
    /\ UNCHANGED restVars

CallFormatRiskFlag ==
    /\ "format_risk_flag" \notin called
    /\ label' = format_risk_flag(value)
    /\ called' = called \cup {"format_risk_flag"}
    /\ UNCHANGED <<value, normalized, text, housing_risk, impairment_risk, mmh_risk,
                   risk_level, risk_labels, data_row, pdf, preview>>
    /\ UNCHANGED restVars

\* safe_str applied to the string that safe_str returned
CallSafeStrAgain ==
    /\ "safe_str" \in called
    /\ "safe_str_again" \notin called
    /\ text_again' = safe_str(PyStr(text))
    /\ called' = called \cup {"safe_str_again"}
    /\ UNCHANGED <<value, normalized, text, label, housing_risk, impairment_risk,
                   mmh_risk, risk_level, risk_labels, data_row, pdf, preview>>
    /\ UNCHANGED <<generated_at, logo_found, againVars>>
    /\ UNCHANGED <<sessionVars, inputVars, runVars>>

NextFlag == CallNormalizeFlag \/ CallSafeStr \/ CallFormatRiskFlag \/ CallSafeStrAgain

SpecFlag == InitFlag /\ [][NextFlag]_vars

---------------------------------------------------------------------------
(* Claims about normalize_flag and safe_str on one value *)

Ran(f) == f \in called

\* s without its leading and trailing whitespace, by position
Trimmed(s) ==
    LET solid == {i \in 1..Len(s) : s[i] \notin Whitespace}
    IN  IF solid = {} THEN <<>>
        ELSE SubSeq(s, CHOOSE i \in solid : \A j \in solid : i <= j,
                       CHOOSE i \in solid : \A j \in solid : i >= j)

\* C3: for a string whose trimmed, lower-cased form is one of true/t/1/yes/y
\* normalize_flag returns True, and for one of false/f/0/no/n/"" it returns False.
C3_StringVocabulary ==
    (Ran("normalize_flag") /\ value.type = "str") =>
        LET v == Lower(Trimmed(value.s)) IN
        /\ v \in { <<"t","r","u","e">>, <<"t">>, <<"1">>, <<"y","e","s">>, <<"y">> }
              => normalized = TRUE
        /\ v \in { <<"f","a","l","s","e">>, <<"f">>, <<"0">>, <<"n","o">>, <<"n">>, <<>> }
              => normalized = FALSE

\* " TrUe\n" has been normalised to True
C3_Witness ==
    /\ Ran("normalize_flag")
    /\ value = PyStr(<<" ","T","r","U","e","\n">>)
    /\ normalized = TRUE

NumericTypes == {"int", "float", "numpy.int64", "numpy.float64", "decimal.Decimal"}

\* C4: for every numeric input n other than NaN, whatever its representation,
\* normalize_flag(n) = (n != 0).
C4_NumericNonZero ==
    (Ran("normalize_flag") /\ value.type \in NumericTypes /\ ~value.nan) =>
        normalized = (value.n # 0)

\* C5: for every boolean input, whatever its representation, normalize_flag
\* returns the input unchanged.
C5_BooleanUnchanged ==
    (Ran("normalize_flag") /\ value.type \in {"bool", "numpy.bool_"}) =>
        normalized = value.b

Vocabulary ==
    { <<"t","r","u","e">>, <<"t">>, <<"1">>, <<"y","e","s">>, <<"y">>,
      <<"f","a","l","s","e">>, <<"f">>, <<"0">>, <<"n","o">>, <<"n">>, <<>> }

\* C6: normalize_flag returns False for None, NaN, the missing-value singleton,
\* a string outside the vocabulary and a value of a type it does not know.
C6_FallbackFalse ==
    Ran("normalize_flag") =>
        /\ value \in {PyNone, PyNaN, NpNaN, PdNA} => normalized = FALSE
        /\ (value.type = "str" /\ Lower(Trimmed(value.s)) \notin Vocabulary)
              => normalized = FALSE
        /\ value.type \notin {"bool", "int", "float", "numpy.float64", "str"}
              => normalized = FALSE

\* NaN has been normalised to False
C6_Witness ==
    /\ Ran("normalize_flag")
    /\ value = PyNaN
    /\ normalized = FALSE

\* C10: safe_str returns "Not available" for None, NaN and the missing-value
\* singleton, and returns the empty string only for the empty string itself.
C10_NullPlaceholder ==
    Ran("safe_str") =>
        /\ value \in {PyNone, PyNaN, NpNaN, PdNA} => text = NotAvailable
        /\ text = <<>> => value = PyStr(<<>>)

\* NaN has been rendered as "Not available"
C10_Witness ==
    /\ Ran("safe_str")
    /\ value = NpNaN
    /\ text = NotAvailable


\* C11: safe_str is idempotent: applied to the string it returned, safe_str
\* returns that same string.
C11_Idempotent ==
    Ran("safe_str_again") => text_again = text

\* safe_str has been applied to the text it made of the string " Yes"
C11_Witness ==
    /\ Ran("safe_str_again")
    /\ value = PyStr(<<" ","Y","e","s">>)
    /\ text_again = <<" ","Y","e","s">>

DateTypes == {"datetime.date", "datetime.datetime", "pandas.Timestamp"}

Digits == {"0", "1", "2", "3", "4", "5", "6", "7", "8", "9"}

\* C12: for a date, a datetime or a timestamp safe_str returns the value as
\* YYYY-MM-DD: ten characters, the calendar date, and no time of day.
C12_DateOnly ==
    (Ran("safe_str") /\ value.type \in DateTypes) =>
        /\ Len(text) = 10
        /\ \A i \in {1, 2, 3, 4, 6, 7, 9, 10} : text[i] \in Digits
        /\ text[5] = "-" /\ text[8] = "-"
        /\ text = Pad4(value.dt.y) \o <<"-">> \o Pad2(value.dt.mo) \o <<"-">>
                     \o Pad2(value.dt.d)

---------------------------------------------------------------------------
(* get_risk_level applied to three raw flag values *)

RiskInputs ==
    Scalars \cup { PyStr(s) : s \in { <<"t","r","u","e">>, <<" ","Y","e","s"," ">>,
                                      <<"n","o">>, <<"m","a","y","b","e">>, <<>> } }

InitRisk ==
    /\ housing_risk \in RiskInputs
    /\ impairment_risk \in RiskInputs
    /\ mmh_risk \in RiskInputs
    /\ risk_level = <<>>
    /\ risk_labels = <<>>
    /\ value = PyNone
    /\ normalized = FALSE
    /\ text = <<>>
    /\ label = <<>>
    /\ called = {}
    /\ data_row = NoRow
    /\ pdf = <<>>
    /\ preview = <<>>
    /\ RestIdle

CallGetRiskLevel ==
    /\ "get_risk_level" \notin called
    /\ risk_level' = get_risk_level(housing_risk, impairment_risk, mmh_risk)
    /\ called' = called \cup {"get_risk_level"}
    /\ UNCHANGED <<value, normalized, text, label, housing_risk, impairment_risk,
                   mmh_risk, risk_labels, data_row, pdf, preview>>
    /\ UNCHANGED restVars

CallFormatRiskFlags ==
    /\ "format_risk_flag" \notin called
    /\ risk_labels' = <<format_risk_flag(housing_risk), format_risk_flag(impairment_risk),
                        format_risk_flag(mmh_risk)>>
    /\ called' = called \cup {"format_risk_flag"}
    /\ UNCHANGED <<value, normalized, text, label, housing_risk, impairment_risk,
                   mmh_risk, risk_level, data_row, pdf, preview>>
    /\ UNCHANGED restVars

NextRisk == CallGetRiskLevel \/ CallFormatRiskFlags

SpecRisk == InitRisk /\ [][NextRisk]_vars

\* the number of the three arguments that normalise to True
TrueCount(h, i, m) ==
    Cardinality({k \in 1..3 : normalize_flag(<<h, i, m>>[k])})

Severity(level) ==
    CASE level = LOW_RISK -> 0 [] level = MODERATE_RISK -> 1 [] level = HIGH_RISK -> 2

\* C7: get_risk_level returns LOW RISK when none of the three flags normalises to
\* True, MODERATE RISK when exactly one does and HIGH RISK when two or three do, and
\* replacing a flag that does not normalise to True by one that does never lowers
\* the severity of the result.
C7_RiskThresholds ==
    Ran("get_risk_level") =>
        LET c == TrueCount(housing_risk, impairment_risk, mmh_risk) IN
        /\ c = 0 => risk_level = <<"L","O","W"," ","R","I","S","K">>
        /\ c = 1 => risk_level = <<"M","O","D","E","R","A","T","E"," ","R","I","S","K">>
        /\ c >= 2 => risk_level = <<"H","I","G","H"," ","R","I","S","K">>
        /\ \A v \in RiskInputs :
              normalize_flag(v) =>
                /\ ~normalize_flag(housing_risk) =>
                     Severity(get_risk_level(v, impairment_risk, mmh_risk)) >= Severity(risk_level)
                /\ ~normalize_flag(impairment_risk) =>
                     Severity(get_risk_level(housing_risk, v, mmh_risk)) >= Severity(risk_level)
                /\ ~normalize_flag(mmh_risk) =>
                     Severity(get_risk_level(housing_risk, impairment_risk, v)) >= Severity(risk_level)

\* two of three flags are True in different encodings and the level is HIGH RISK
C7_Witness ==
    /\ Ran("get_risk_level")
    /\ housing_risk = PyBool(TRUE)
    /\ impairment_risk = PyStr(<<"n","o">>)
    /\ mmh_risk = PyInt(1)
    /\ risk_level = HIGH_RISK

---------------------------------------------------------------------------
(* The record handed to the renderers *)

\* the columns load_report_data selects, in order
ReportKeys ==
    << "koo_clientid", "client_name", "client_nhi", "dhb", "ethnicity", "domicile",
       "gender", "primary_caregiver", "well_child_level_of_need",
       "topic_tags_house", "topic_tags_impairment", "topic_tags_mmh",
       "housing_summary", "impairments_summary", "mmh_summary",
       "housing_risk_flag", "impairment_risk_flag", "mmh_risk_flag" >>

KeySet == { ReportKeys[i] : i \in DOMAIN ReportKeys }

FlagKeys == {"housing_risk_flag", "impairment_risk_flag", "mmh_risk_flag"}

KeyIndex(k) == CHOOSE i \in DOMAIN ReportKeys : ReportKeys[i] = k

\* the text a column holds when it holds one: "Jane Doe" for the client's name,
\* a text of its own for every other column
SampleText(k) ==
    IF k = "client_name" THEN PyStr(<<"J","a","n","e"," ","D","o","e">>)
    ELSE PyStr(<<"t","x","t">> \o IntStr(KeyIndex(k)))

\* data_row.get(key, default)
Get(row, key, default) == IF key \in DOMAIN row THEN row[key] ELSE default

EmptyStr == PyStr(<<>>)

\* the ways a field can be missing: its key absent, or its value None or NaN
MissingKinds == {"absent", "None", "NaN"}

\* the fields the renderers read
RenderedKeys == KeySet \ {"koo_clientid"}

\* which rendered fields are missing, and how: at most MaxMissing of them
MissingChoices ==
    UNION { [m -> MissingKinds] :
              m \in { { pick[i] : i \in 1..MaxMissing } \ {""} :
                        pick \in [1..MaxMissing -> RenderedKeys \cup {""}] } }

MakeRow(missing, flags) ==
    [ k \in { x \in KeySet : x \notin DOMAIN missing \/ missing[x] # "absent" } |->
        IF k \in DOMAIN missing
        THEN (IF missing[k] = "None" THEN PyNone ELSE PyNaN)
        ELSE IF k \in FlagKeys THEN flags[k] ELSE SampleText(k) ]

---------------------------------------------------------------------------
(* generate_pdf: the story handed to doc.build *)

\* markup "plain": the literal alone; "bullet_bold": &bull; <b>lit</b> val;
\* "value": the interpolated value alone
Paragraph(markup, lit, val, style) ==
    [flowable |-> "Paragraph", style |-> style, markup |-> markup, lit |-> lit,
     val |-> val, rows |-> <<>>]

Table(rows) ==
    [flowable |-> "Table", style |-> "", markup |-> "", lit |-> "", val |-> <<>>,
     rows |-> rows]

Flowable(kind) ==
    [flowable |-> kind, style |-> "", markup |-> "", lit |-> "", val |-> <<>>,
     rows |-> <<>>]

LabelCell(lit) == [markup |-> "plain", lit |-> lit, val |-> <<>>]
ValueCell(val) == [markup |-> "value", lit |-> "", val |-> val]

\* now.strftime('%Y-%m-%d %H:%M')
StrfMinute(now) ==
    NatStr(now.y) \o <<"-">> \o Pad2(now.mo) \o <<"-">> \o Pad2(now.d) \o <<" ">>
    \o Pad2(now.h) \o <<":">> \o Pad2(now.mi)

\* the header is drawn with the logo when the file is there and can be drawn
PDFHeader(logo) ==
    [flowable |-> "PDFHeader", style |-> "", markup |-> "",
     lit |-> IF logo THEN "logo.png" ELSE "", val |-> <<>>, rows |-> <<>>]

PdfTitle(logo) ==
    << PDFHeader(logo),
       Flowable("Spacer"),
       Paragraph("plain", "CLIENT BACKGROUND REPORT", <<>>, "title_style"),
       Paragraph("plain", "Based on Plunket AI Model Analysis", <<>>, "subtitle_style"),
       Flowable("HRFlowable") >>

PdfClientInfo(row, now) ==
    LET client_name == safe_str(Get(row, "client_name", EmptyStr))
        client_nhi == safe_str(Get(row, "client_nhi", EmptyStr))
        dhb == safe_str(Get(row, "dhb", EmptyStr))
        ethnicity == safe_str(Get(row, "ethnicity", EmptyStr))
        domicile == safe_str(Get(row, "domicile", EmptyStr))
        gender == safe_str(Get(row, "gender", EmptyStr))
        primary_caregiver == safe_str(Get(row, "primary_caregiver", EmptyStr))
        well_child_level_of_need == safe_str(Get(row, "well_child_level_of_need", EmptyStr))
    IN
    << Paragraph("plain", "CLIENT INFORMATION", <<>>, "section_header_style"),
       Table(<<
         << LabelCell("Client Name:"), ValueCell(client_name),
            LabelCell("Client NHI:"), ValueCell(client_nhi) >>,
         << LabelCell("DHB:"), ValueCell(dhb),
            LabelCell("Ethnicity:"), ValueCell(ethnicity) >>,
         << LabelCell("Domicile:"), ValueCell(domicile),
            LabelCell("Gender:"), ValueCell(gender) >>,
         << LabelCell("Primary Caregiver:"), ValueCell(primary_caregiver),
            LabelCell("Well Child Level of Need:"), ValueCell(well_child_level_of_need) >>,
         << LabelCell("Generated:"), ValueCell(StrfMinute(now)),
            LabelCell(""), LabelCell("") >> >>),
       Flowable("Spacer"),
       Flowable("HRFlowable") >>

PdfTopics(row) ==
    LET housing_topics == safe_str(Get(row, "topic_tags_house", EmptyStr))
        impairment_topics == safe_str(Get(row, "topic_tags_impairment", EmptyStr))
        mmh_topics == safe_str(Get(row, "topic_tags_mmh", EmptyStr))
    IN
    << Paragraph("plain", "DISCUSSION TOPICS", <<>>, "section_header_style"),
       Paragraph("bullet_bold", "Housing:", housing_topics, "body_style"),
       Paragraph("bullet_bold", "Impairment:", impairment_topics, "body_style"),
       Paragraph("bullet_bold", "Mental/Maternal Health:", mmh_topics, "body_style"),
       Flowable("Spacer"),
       Flowable("HRFlowable") >>

PdfSummaries(row) ==
    << Paragraph("plain", "SUMMARIES", <<>>, "section_header_style"),
       Paragraph("plain", "Housing Situation:", <<>>, "subsection_style"),
       Paragraph("value", "", safe_str(Get(row, "housing_summary", EmptyStr)), "body_style"),
       Paragraph("plain", "Impairment Status:", <<>>, "subsection_style"),
       Paragraph("value", "", safe_str(Get(row, "impairments_summary", EmptyStr)), "body_style"),
       Paragraph("plain", "Mental/Maternal Health:", <<>>, "subsection_style"),
       Paragraph("value", "", safe_str(Get(row, "mmh_summary", EmptyStr)), "body_style"),
       Flowable("Spacer"),
       Flowable("HRFlowable") >>

\* the categorical variant: each flag shown through format_risk_flag
PdfRiskFlags_categorical(row) ==
    << Paragraph("plain", "RISK FLAGS", <<>>, "section_header_style"),
       Paragraph("bullet_bold", "Housing:",
                 format_risk_flag(Get(row, "housing_risk_flag", PyNone)), "body_style"),
       Paragraph("bullet_bold", "Impairment:",
                 format_risk_flag(Get(row, "impairment_risk_flag", PyNone)), "body_style"),
       Paragraph("bullet_bold", "MMH:",
                 format_risk_flag(Get(row, "mmh_risk_flag", PyNone)), "body_style"),
       Flowable("Spacer"),
       Flowable("HRFlowable") >>

PdfRiskFlags(row) ==
    LET housing_risk_raw == safe_str(Get(row, "housing_risk_flag", EmptyStr))
        impairment_risk_raw == safe_str(Get(row, "impairment_risk_flag", EmptyStr))
        mmh_risk_raw == safe_str(Get(row, "mmh_risk_flag", EmptyStr))
    IN
    << Paragraph("plain", "RISK FLAGS", <<>>, "section_header_style"),
       Paragraph("bullet_bold", "Housing:", housing_risk_raw, "body_style"),
       Paragraph("bullet_bold", "Impairment:", impairment_risk_raw, "body_style"),
       Paragraph("bullet_bold", "MMH:", mmh_risk_raw, "body_style"),
       Flowable("Spacer"),
       Flowable("HRFlowable") >>

PdfFooter ==
    << Paragraph("plain", "Generated by Plunket AI Model.", <<>>, "footer_style") >>

\* a slip: the risk block is appended right after the client information
generate_pdf_riskfirst(row, now, logo) ==
    PdfTitle(logo) \o PdfClientInfo(row, now) \o PdfRiskFlags(row) \o PdfTopics(row)
    \o PdfSummaries(row) \o PdfFooter

\* a slip: story is a module-level list, so a later call appends to the flowables
\* of the call before it
generate_pdf_sharedstory(row, now, logo) ==
    pdf \o PdfTitle(logo) \o PdfClientInfo(row, now) \o PdfTopics(row)
    \o PdfSummaries(row) \o PdfRiskFlags(row) \o PdfFooter

\* now is what datetime.now() returns during the call, logo whether
\* os.path.exists(logo_path) holds and drawImage succeeds while doc.build draws
generate_pdf(row, now, logo) ==
    PdfTitle(logo) \o PdfClientInfo(row, now) \o PdfTopics(row) \o PdfSummaries(row)
    \o PdfRiskFlags(row) \o PdfFooter

---------------------------------------------------------------------------
(* render_report_preview: the streamlit calls it makes *)

\* markup "plain": the literal alone; "h3": ### lit; "bold_value": **lit** val;
\* "bullet_bold": - **lit** val; "bold": **lit**; "value": the value alone.
\* col is the column the call is made in (0: none)
St(call, markup, lit, val, col) ==
    [call |-> call, markup |-> markup, lit |-> lit, val |-> val, col |-> col]

PreviewTitle ==
    << St("subheader", "plain", "Client Background Report", <<>>, 0),
       St("caption", "plain", "Based on Plunket AI Model Analysis", <<>>, 0),
       St("divider", "", "", <<>>, 0) >>

PreviewClientInfo(row) ==
    LET client_name == safe_str(Get(row, "client_name", EmptyStr))
        client_nhi == safe_str(Get(row, "client_nhi", EmptyStr))
        dhb == safe_str(Get(row, "dhb", EmptyStr))
        ethnicity == safe_str(Get(row, "ethnicity", EmptyStr))
        domicile == safe_str(Get(row, "domicile", EmptyStr))
        gender == safe_str(Get(row, "gender", EmptyStr))
        primary_caregiver == safe_str(Get(row, "primary_caregiver", EmptyStr))
        well_child_level_of_need == safe_str(Get(row, "well_child_level_of_need", EmptyStr))
    IN
    << St("markdown", "h3", "CLIENT INFORMATION", <<>>, 0),
       St("markdown", "bold_value", "Client Name:", client_name, 1),
       St("markdown", "bold_value", "DHB:", dhb, 1),
       St("markdown", "bold_value", "Domicile:", domicile, 1),
       St("markdown", "bold_value", "Primary Caregiver:", primary_caregiver, 1),
       St("markdown", "bold_value", "Client NHI:", client_nhi, 2),
       St("markdown", "bold_value", "Ethnicity:", ethnicity, 2),
       St("markdown", "bold_value", "Gender:", gender, 2),
       St("markdown", "bold_value", "Well Child Level of Need:", well_child_level_of_need, 2),
       St("divider", "", "", <<>>, 0) >>

PreviewTopics(row) ==
    LET housing_topics == safe_str(Get(row, "topic_tags_house", EmptyStr))
        impairment_topics == safe_str(Get(row, "topic_tags_impairment", EmptyStr))
        mmh_topics == safe_str(Get(row, "topic_tags_mmh", EmptyStr))
    IN
    << St("markdown", "h3", "DISCUSSION TOPICS", <<>>, 0),
       St("markdown", "bullet_bold", "Housing:", housing_topics, 0),
       St("markdown", "bullet_bold", "Impairment:", impairment_topics, 0),
       St("markdown", "bullet_bold", "Mental/Maternal Health:", mmh_topics, 0),
       St("divider", "", "", <<>>, 0) >>

\* a slip: the key of the impairment summary is misspelt
PreviewSummaries_typo(row) ==
    << St("markdown", "h3", "SUMMARIES", <<>>, 0),
       St("markdown", "bold", "Housing Situation:", <<>>, 0),
       St("markdown", "value", "", safe_str(Get(row, "housing_summary", EmptyStr)), 0),
       St("markdown", "bold", "Impairment Status:", <<>>, 0),
       St("markdown", "value", "", safe_str(Get(row, "impairment_summary", EmptyStr)), 0),
       St("markdown", "bold", "Mental/Maternal Health:", <<>>, 0),
       St("markdown", "value", "", safe_str(Get(row, "mmh_summary", EmptyStr)), 0),
       St("divider", "", "", <<>>, 0) >>

PreviewSummaries(row) ==
    << St("markdown", "h3", "SUMMARIES", <<>>, 0),
       St("markdown", "bold", "Housing Situation:", <<>>, 0),
       St("markdown", "value", "", safe_str(Get(row, "housing_summary", EmptyStr)), 0),
       St("markdown", "bold", "Impairment Status:", <<>>, 0),
       St("markdown", "value", "", safe_str(Get(row, "impairments_summary", EmptyStr)), 0),
       St("markdown", "bold", "Mental/Maternal Health:", <<>>, 0),
       St("markdown", "value", "", safe_str(Get(row, "mmh_summary", EmptyStr)), 0),
       St("divider", "", "", <<>>, 0) >>

PreviewRiskFlags(row) ==
    LET housing_risk_raw == safe_str(Get(row, "housing_risk_flag", EmptyStr))
        impairment_risk_raw == safe_str(Get(row, "impairment_risk_flag", EmptyStr))
        mmh_risk_raw == safe_str(Get(row, "mmh_risk_flag", EmptyStr))
    IN
    << St("markdown", "h3", "RISK FLAGS", <<>>, 0),
       St("markdown", "bullet_bold", "Housing:", housing_risk_raw, 0),
       St("markdown", "bullet_bold", "Impairment:", impairment_risk_raw, 0),
       St("markdown", "bullet_bold", "MMH:", mmh_risk_raw, 0) >>

render_report_preview(row) ==
    PreviewTitle \o PreviewClientInfo(row) \o PreviewTopics(row)
    \o PreviewSummaries(row) \o PreviewRiskFlags(row)

---------------------------------------------------------------------------
(* One record, rendered both ways and assessed *)

\* the values a risk flag holds when it is not missing
FlagChoices == { PyBool(TRUE), PyBool(FALSE) }

\* the wall-clock readings of datetime.now()
Clock ==
    { [y |-> 2024, mo |-> 3, d |-> 1, h |-> 9, mi |-> 5],
      [y |-> 2024, mo |-> 12, d |-> 31, h |-> 23, mi |-> 59] }

Init ==
    /\ data_row \in { MakeRow(m, f) : m \in MissingChoices, f \in [FlagKeys -> FlagChoices] }
    /\ pdf = <<>>
    /\ preview = <<>>
    /\ RestIdle
    /\ housing_risk = PyNone
    /\ impairment_risk = PyNone
    /\ mmh_risk = PyNone
    /\ risk_level = <<>>
    /\ risk_labels = <<>>
    /\ value = PyNone
    /\ normalized = FALSE
    /\ text = <<>>
    /\ label = <<>>
    /\ called = {}

\* the download section builds the PDF of the record
GeneratePdf ==
    /\ "generate_pdf" \notin called
    /\ \E now \in Clock, logo \in BOOLEAN :
          /\ pdf' = generate_pdf(data_row, now, logo)
          /\ generated_at' = <<now>>
          /\ logo_found' = logo
    /\ called' = called \cup {"generate_pdf"}
    /\ UNCHANGED <<value, normalized, text, label, housing_risk, impairment_risk,
                   mmh_risk, risk_level, risk_labels, data_row, preview>>
    /\ UNCHANGED <<text_again, againVars>>
    /\ UNCHANGED <<sessionVars, inputVars, runVars>>

\* the preview section, further down the script, renders the record
RenderPreview ==
    /\ "generate_pdf" \in called
    /\ "render_report_preview" \notin called
    /\ preview' = render_report_preview(data_row)
    /\ called' = called \cup {"render_report_preview"}
    /\ UNCHANGED <<value, normalized, text, label, housing_risk, impairment_risk,
                   mmh_risk, risk_level, risk_labels, data_row, pdf>>
    /\ UNCHANGED restVars

\* get_risk_level and format_risk_flag applied to the three flags the record carries
AssessRisk ==
    /\ "render_report_preview" \in called
    /\ "get_risk_level" \notin called
    /\ FlagKeys \subseteq DOMAIN data_row
    /\ housing_risk' = data_row["housing_risk_flag"]
    /\ impairment_risk' = data_row["impairment_risk_flag"]
    /\ mmh_risk' = data_row["mmh_risk_flag"]
    /\ risk_level' = get_risk_level(housing_risk', impairment_risk', mmh_risk')
    /\ risk_labels' = << format_risk_flag(housing_risk'), format_risk_flag(impairment_risk'),
                         format_risk_flag(mmh_risk') >>
    /\ called' = called \cup {"get_risk_level", "format_risk_flag"}
    /\ UNCHANGED <<value, normalized, text, label, data_row, pdf, preview>>
    /\ UNCHANGED restVars

Next == GeneratePdf \/ RenderPreview \/ AssessRisk

Spec == Init /\ [][Next]_vars

---------------------------------------------------------------------------
(* The same record rendered twice: every script run with a row selected calls
   generate_pdf again, and every run with a stored report renders the preview
   again *)

InitTwice ==
    /\ data_row \in { MakeRow(m, [k \in FlagKeys |-> f]) :
                         m \in MissingChoices, f \in FlagChoices }
    /\ pdf = <<>>
    /\ preview = <<>>
    /\ RestIdle
    /\ housing_risk = PyNone
    /\ impairment_risk = PyNone
    /\ mmh_risk = PyNone
    /\ risk_level = <<>>
    /\ risk_labels = <<>>
    /\ value = PyNone
    /\ normalized = FALSE
    /\ text = <<>>
    /\ label = <<>>
    /\ called = {}

\* the download section of a later script run builds the PDF of the record again
GeneratePdfAgain ==
    /\ "render_report_preview" \in called
    /\ "generate_pdf_again" \notin called
    /\ \E now \in Clock, logo \in BOOLEAN :
          /\ pdf_again' = generate_pdf(data_row, now, logo)
          /\ generated_at_again' = <<now>>
          /\ logo_found_again' = logo
    /\ called' = called \cup {"generate_pdf_again"}
    /\ UNCHANGED <<value, normalized, text, label, housing_risk, impairment_risk,
                   mmh_risk, risk_level, risk_labels, data_row, pdf, preview>>
    /\ UNCHANGED <<text_again, generated_at, logo_found, preview_again>>
    /\ UNCHANGED <<sessionVars, inputVars, runVars>>

\* and its preview section renders the record again
RenderPreviewAgain ==
    /\ "generate_pdf_again" \in called
    /\ "render_report_preview_again" \notin called
    /\ preview_again' = render_report_preview(data_row)
    /\ called' = called \cup {"render_report_preview_again"}
    /\ UNCHANGED <<value, normalized, text, label, housing_risk, impairment_risk,
                   mmh_risk, risk_level, risk_labels, data_row, pdf, preview>>
    /\ UNCHANGED <<text_again, generated_at, logo_found, pdf_again,
                   generated_at_again, logo_found_again>>
    /\ UNCHANGED <<sessionVars, inputVars, runVars>>

NextTwice == GeneratePdf \/ RenderPreview \/ GeneratePdfAgain \/ RenderPreviewAgain

SpecTwice == InitTwice /\ [][NextTwice]_vars

---------------------------------------------------------------------------
(* The page: one script run per user interaction, section by section *)

\* the variables no section of the page script touches
normaliserVars == <<value, normalized, text, label, called, housing_risk, impairment_risk,
                    mmh_risk, risk_level, risk_labels, text_again, againVars>>

\* the clients of the warehouse: two with a report, one whose report carries
\* markup the layout backend rejects, one with no report
Clients == {"c1", "c2", "c3", "c4"}

NoMissing == [k \in {} |-> "absent"]

ReportOf(c) ==
    LET row == MakeRow(NoMissing, [k \in FlagKeys |-> PyBool(c = "c2")])
    IN  CASE c = "c1" -> row
          [] c = "c2" -> [row EXCEPT !["client_name"] = PyStr(<<"R","a","n","g","i">>)]
          [] c = "c3" -> [row EXCEPT !["housing_summary"] =
                                        PyStr(<<"<","b",">","d","a","m","p">>)]

\* load_report_data: the DataFrame of at most one row (<<>>: empty)
load_report_data(client_id) ==
    IF client_id \in {"c1", "c2", "c3"} THEN <<ReportOf(client_id)>> ELSE <<>>

\* t occurs in s
HasSub(s, t) == \E i \in 1..(Len(s) - Len(t) + 1) : SubSeq(s, i, i + Len(t) - 1) = t

\* the paragraph parser of the layout backend raises on a <b> that is never closed
BuildFails(story) ==
    \E i \in 1..Len(story) :
        /\ story[i].flowable = "Paragraph"
        /\ HasSub(story[i].val, <<"<","b",">">>)
        /\ ~HasSub(story[i].val, <<"<","/","b",">">>)

\* the DataFrames the query can return: any rows, in any order
QueryResults == UNION { [1..n -> Clients] : n \in 0..MaxRows }

\* search_client_data: a criterion counts when it is non-empty after strip(); with
\* no criterion left, and when the query raises, the DataFrame is empty
search_client_data(client_name, client_nhi, assessment_date) ==
    IF /\ (client_name = <<>> \/ Strip(client_name[1]) = <<>>)
       /\ (client_nhi = <<>> \/ Strip(client_nhi[1]) = <<>>)
       /\ assessment_date = <<>>
    THEN { <<>> }
    ELSE QueryResults

\* x if x else None
OrNone(x) == IF x = <<>> THEN <<>> ELSE <<x>>

NameInputs == { <<>>, <<" ">>, <<"J","a","n","e">> }
NhiInputs == { <<>>, <<"Z","Z","Z","0","0","1","6">> }
DateChoices == { <<>>, <<[y |-> 2024, mo |-> 3, d |-> 1]>> }

\* what the user has put in the three inputs: nothing, blanks, one criterion, all
CriteriaChoices ==
    { c \in NameInputs \X NhiInputs \X DateChoices :
        \/ c[2] = <<>> /\ c[3] = <<>>
        \/ c[1] = <<>> /\ (c[2] = <<>> \/ c[3] = <<>>)
        \/ c[1] \notin {<<>>, <<" ">>} /\ c[2] # <<>> /\ c[3] # <<>> }

\* [False] * n
AllFalse(n) == [i \in 1..n |-> FALSE]

\* the locals of a script run that starts
NewRun ==
    /\ df' = <<>>
    /\ report_df' = <<>>
    /\ on_page' = {}
    /\ report_before' = report_data
    /\ data_row' = NoRow
    /\ pdf' = <<>>
    /\ preview' = <<>>
    /\ generated_at' = <<>>
    /\ logo_found' = FALSE

renderVars == <<data_row, pdf, preview, generated_at, logo_found>>

InitUI ==
    /\ SessionInit
    /\ PageIdle
    /\ data_row = NoRow
    /\ pdf = <<>>
    /\ preview = <<>>
    /\ text_again = <<>>
    /\ generated_at = <<>>
    /\ logo_found = FALSE
    /\ AgainIdle
    /\ housing_risk = PyNone
    /\ impairment_risk = PyNone
    /\ mmh_risk = PyNone
    /\ risk_level = <<>>
    /\ risk_labels = <<>>
    /\ value = PyNone
    /\ normalized = FALSE
    /\ text = <<>>
    /\ label = <<>>
    /\ called = {}

\* the user clicks Search (after filling in the criteria), clicks Preview Report
\* (only when the button is enabled) or edits the table: the script runs again
UserInteracts ==
    /\ pc = "idle"
    /\ \E trigger \in {"search", "preview", "edit"} :
          /\ trigger = "preview" => has_selection
          /\ search_clicked' = (trigger = "search")
          /\ preview_clicked' = (trigger = "preview")
          /\ IF trigger = "search"
             THEN \E c \in CriteriaChoices :
                    /\ client_name_input' = c[1]
                    /\ client_nhi_input' = c[2]
                    /\ report_date_input' = c[3]
             ELSE UNCHANGED inputVars
    /\ pc' = "search"
    /\ NewRun
    /\ UNCHANGED <<sessionVars, edited_mask, has_selection, normaliserVars>>

\* a slip: the search forgets to clear the stored report
SearchStep_keepreport ==
    /\ pc = "search"
    /\ IF search_clicked
       THEN IF client_name_input = <<>> /\ client_nhi_input = <<>> /\ report_date_input = <<>>
            THEN /\ on_page' = on_page \cup {"search_error"}
                 /\ UNCHANGED <<sessionVars, df>>
            ELSE \E result \in search_client_data(OrNone(client_name_input),
                                                  OrNone(client_nhi_input),
                                                  report_date_input) :
                    /\ df' = <<result>>
                    /\ search_results' = <<result>>
                    /\ selected_row_index' = <<>>
                    /\ report_data' = report_data
                    /\ selection_mask' = AllFalse(Len(result))
                    /\ UNCHANGED on_page
       ELSE UNCHANGED <<sessionVars, df, on_page>>
    /\ pc' = "results"
    /\ UNCHANGED <<inputVars, search_clicked, preview_clicked, edited_mask,
                   has_selection, report_df, report_before, renderVars, normaliserVars>>

\* if search_clicked: ...
SearchStep ==
    /\ pc = "search"
    /\ IF search_clicked
       THEN IF client_name_input = <<>> /\ client_nhi_input = <<>> /\ report_date_input = <<>>
            THEN /\ on_page' = on_page \cup {"search_error"}
                 /\ UNCHANGED <<sessionVars, df>>
            ELSE \E result \in search_client_data(OrNone(client_name_input),
                                                  OrNone(client_nhi_input),
                                                  report_date_input) :
                    /\ df' = <<result>>
                    /\ search_results' = <<result>>
                    /\ selected_row_index' = <<>>
                    /\ report_data' = <<>>
                    /\ selection_mask' = AllFalse(Len(result))
                    /\ UNCHANGED on_page
       ELSE UNCHANGED <<sessionVars, df, on_page>>
    /\ pc' = "results"
    /\ UNCHANGED <<inputVars, search_clicked, preview_clicked, edited_mask,
                   has_selection, report_df, report_before, renderVars, normaliserVars>>

\* sum(mask)
CountTrue(mask) == Cardinality({ i \in DOMAIN mask : mask[i] })

\* next(i for i, v in enumerate(mask) if v), as a position from 1
FirstTrue(mask) == CHOOSE i \in DOMAIN mask : mask[i] /\ \A j \in DOMAIN mask : mask[j] => i <= j

\* a slip: of several ticked rows the first is kept, whatever changed
KeptRow_first(old, new) == FirstTrue(new)

\* the row kept when more than one box is ticked, as a position from 1:
\* changed_indices[-1], or the first ticked row when nothing changed
KeptRow(old, new) ==
    LET changed_indices == { i \in DOMAIN new : old[i] # new[i] }
    IN  IF changed_indices # {}
        THEN CHOOSE i \in changed_indices : \A j \in changed_indices : j <= i
        ELSE FirstTrue(new)

\* previous_mask: the stored mask, replaced by [False] * n_rows when its length
\* is not the number of rows
PreviousMask ==
    LET n_rows == Len(search_results[1])
    IN  IF Len(selection_mask) # n_rows THEN AllFalse(n_rows) ELSE selection_mask

\* the results section: the table with its Select column; st.data_editor may
\* return any column of n_rows booleans (what the user ticked, and how the widget
\* carries edits over a changed table, is not the script's to decide);
\* st.rerun() starts the script over
ResultsStep ==
    /\ pc = "results"
    /\ IF search_results = <<>> \/ search_results[1] = <<>>
       THEN /\ pc' = "actions"
            /\ UNCHANGED <<sessionVars, edited_mask, search_clicked,
                           preview_clicked, df, on_page, report_before>>
       ELSE LET n_rows == Len(search_results[1])
                previous_mask == PreviousMask
            IN  \E new_mask \in [1..n_rows -> BOOLEAN] :
                  /\ edited_mask' = new_mask
                  /\ IF CountTrue(new_mask) > 1
                     THEN LET selected_idx == KeptRow(previous_mask, new_mask) IN
                          /\ selection_mask' = [i \in 1..n_rows |-> i = selected_idx]
                          /\ selected_row_index' = <<selected_idx - 1>>
                          /\ pc' = "search"
                          /\ search_clicked' = FALSE
                          /\ preview_clicked' = FALSE
                          /\ df' = <<>>
                          /\ on_page' = {}
                          /\ report_before' = report_data
                     ELSE /\ selection_mask' = new_mask
                          /\ selected_row_index' =
                                IF CountTrue(new_mask) = 1 THEN <<FirstTrue(new_mask) - 1>>
                                ELSE <<>>
                          /\ pc' = "actions"
                          /\ UNCHANGED <<search_clicked, preview_clicked, df, on_page,
                                         report_before>>
                  /\ UNCHANGED <<search_results, report_data>>
    /\ UNCHANGED <<inputVars, has_selection, report_df, renderVars, normaliserVars>>

\* search_results.iloc[selected_idx].get('koo_clientid', ''): <<>> when the index
\* is out of range (IndexError)
SelectedClient ==
    IF selected_row_index[1] + 1 \in DOMAIN search_results[1]
    THEN <<search_results[1][selected_row_index[1] + 1]>>
    ELSE <<>>

\* has_selection, the two buttons and the download section; an exception raised
\* by generate_pdf is caught nowhere and ends the script run
ActionsStep ==
    /\ pc = "actions"
    /\ LET selected == /\ selected_row_index # <<>>
                       /\ search_results # <<>>
                       /\ search_results[1] # <<>>
       IN
       /\ has_selection' = selected
       /\ IF ~selected
          THEN /\ pc' = "click"
               /\ UNCHANGED <<report_df, on_page, renderVars>>
          ELSE IF SelectedClient = <<>>
          THEN /\ pc' = "idle"
               /\ on_page' = on_page \cup {"exception"}
               /\ UNCHANGED <<report_df, renderVars>>
          ELSE LET loaded == load_report_data(SelectedClient[1]) IN
               /\ report_df' = loaded
               /\ IF loaded = <<>>
                  THEN /\ pc' = "click"
                       /\ on_page' = on_page \cup {"no_report_caption"}
                       /\ UNCHANGED renderVars
                  ELSE /\ data_row' = loaded[1]
                       /\ UNCHANGED preview
                       /\ \E now \in Clock, logo \in BOOLEAN :
                            LET story == generate_pdf(loaded[1], now, logo) IN
                            /\ generated_at' = <<now>>
                            /\ IF BuildFails(story)
                               THEN /\ logo = FALSE
                                    /\ logo_found' = FALSE
                                    /\ pdf' = <<>>
                                    /\ on_page' = on_page \cup {"exception"}
                                    /\ pc' = "idle"
                               ELSE /\ logo_found' = logo
                                    /\ pdf' = story
                                    /\ on_page' = on_page \cup {"download_button"}
                                    /\ pc' = "click"
    /\ UNCHANGED <<sessionVars, inputVars, search_clicked, preview_clicked, df,
                   edited_mask, report_before, normaliserVars>>

\* if preview_clicked and has_selection: ...
PreviewClickStep ==
    /\ pc = "click"
    /\ IF preview_clicked /\ has_selection
       THEN LET loaded == load_report_data(SelectedClient[1]) IN
            IF loaded # <<>>
            THEN /\ report_data' = IF report_data # <<>> THEN <<>> ELSE <<loaded[1]>>
                 /\ UNCHANGED on_page
            ELSE /\ on_page' = on_page \cup {"no_report_error"}
                 /\ UNCHANGED report_data
       ELSE UNCHANGED <<report_data, on_page>>
    /\ pc' = "display"
    /\ UNCHANGED <<search_results, selected_row_index, selection_mask, inputVars,
                   search_clicked, preview_clicked, df, edited_mask,
                   has_selection, report_df, report_before, renderVars, normaliserVars>>

\* if st.session_state.report_data is not None: render_report_preview(data_row)
DisplayStep ==
    /\ pc = "display"
    /\ IF report_data # <<>>
       THEN /\ preview' = render_report_preview(report_data[1])
            /\ on_page' = on_page \cup {"preview"}
       ELSE UNCHANGED <<preview, on_page>>
    /\ pc' = "idle"
    /\ UNCHANGED <<sessionVars, inputVars, search_clicked, preview_clicked, df,
                   edited_mask, has_selection, report_df, report_before,
                   data_row, pdf, generated_at, logo_found, normaliserVars>>

NextUI ==
    UserInteracts \/ SearchStep \/ ResultsStep \/ ActionsStep \/ PreviewClickStep
    \/ DisplayStep

SpecUI == InitUI /\ [][NextUI]_vars

---------------------------------------------------------------------------
(* What the two renderings show *)

Last(S) == CHOOSE i \in S : \A j \in S : j <= i

\* the section headings of the PDF, in order
PdfHeadings == SelectSeq(pdf, LAMBDA f : f.style = "section_header_style")

\* the section heading the i-th flowable of the PDF stands under
PdfSectionOf(i) ==
    LET hs == { j \in 1..i : pdf[j].style = "section_header_style" }
    IN  IF hs = {} THEN "" ELSE pdf[Last(hs)].lit

\* the values the PDF shows beside the label lbl in a section: in a bullet, in the
\* paragraph under a sub-heading, or in the table cell right of the label
PdfShownAt(section, lbl) ==
    { pdf[i].val : i \in { j \in DOMAIN pdf :
          /\ pdf[j].markup = "bullet_bold"
          /\ pdf[j].lit = lbl
          /\ PdfSectionOf(j) = section } }
    \cup
    { pdf[i + 1].val : i \in { j \in DOMAIN pdf :
          /\ pdf[j].style = "subsection_style"
          /\ pdf[j].lit = lbl
          /\ j + 1 \in DOMAIN pdf
          /\ pdf[j + 1].markup = "value"
          /\ PdfSectionOf(j) = section } }
    \cup
    UNION { UNION { { pdf[i].rows[r][c + 1].val :
                        c \in { d \in 1..(Len(pdf[i].rows[r]) - 1) :
                                  /\ pdf[i].rows[r][d].lit = lbl
                                  /\ pdf[i].rows[r][d].markup = "plain"
                                  /\ pdf[i].rows[r][d + 1].markup = "value" } } :
                    r \in DOMAIN pdf[i].rows } :
            i \in { j \in DOMAIN pdf : pdf[j].flowable = "Table" /\ PdfSectionOf(j) = section } }

\* the section headings of the preview, in order
PreviewHeadings == SelectSeq(preview, LAMBDA c : c.markup = "h3")

PreviewSectionOf(i) ==
    LET hs == { j \in 1..i : preview[j].markup = "h3" }
    IN  IF hs = {} THEN "" ELSE preview[Last(hs)].lit

\* the values the preview shows beside the label lbl in a section
PreviewShownAt(section, lbl) ==
    { preview[i].val : i \in { j \in DOMAIN preview :
          /\ preview[j].lit = lbl
          /\ preview[j].markup \in {"bold_value", "bullet_bold"}
          /\ PreviewSectionOf(j) = section } }
    \cup
    { preview[i + 1].val : i \in { j \in DOMAIN preview :
          /\ preview[j].lit = lbl
          /\ preview[j].markup = "bold"
          /\ j + 1 \in DOMAIN preview
          /\ preview[j + 1].markup = "value"
          /\ PreviewSectionOf(j) = section } }

\* where a report shows each field: its section and its label
FieldPlace(k) ==
    CASE k = "client_name"              -> <<"CLIENT INFORMATION", "Client Name:">>
      [] k = "client_nhi"               -> <<"CLIENT INFORMATION", "Client NHI:">>
      [] k = "dhb"                      -> <<"CLIENT INFORMATION", "DHB:">>
      [] k = "ethnicity"                -> <<"CLIENT INFORMATION", "Ethnicity:">>
      [] k = "domicile"                 -> <<"CLIENT INFORMATION", "Domicile:">>
      [] k = "gender"                   -> <<"CLIENT INFORMATION", "Gender:">>
      [] k = "primary_caregiver"        -> <<"CLIENT INFORMATION", "Primary Caregiver:">>
      [] k = "well_child_level_of_need" -> <<"CLIENT INFORMATION", "Well Child Level of Need:">>
      [] k = "topic_tags_house"         -> <<"DISCUSSION TOPICS", "Housing:">>
      [] k = "topic_tags_impairment"    -> <<"DISCUSSION TOPICS", "Impairment:">>
      [] k = "topic_tags_mmh"           -> <<"DISCUSSION TOPICS", "Mental/Maternal Health:">>
      [] k = "housing_summary"          -> <<"SUMMARIES", "Housing Situation:">>
      [] k = "impairments_summary"      -> <<"SUMMARIES", "Impairment Status:">>
      [] k = "mmh_summary"              -> <<"SUMMARIES", "Mental/Maternal Health:">>
      [] k = "housing_risk_flag"        -> <<"RISK FLAGS", "Housing:">>
      [] k = "impairment_risk_flag"     -> <<"RISK FLAGS", "Impairment:">>
      [] k = "mmh_risk_flag"            -> <<"RISK FLAGS", "MMH:">>

PdfShown(k) == PdfShownAt(FieldPlace(k)[1], FieldPlace(k)[2])
PreviewShown(k) == PreviewShownAt(FieldPlace(k)[1], FieldPlace(k)[2])

HeadingNames(hs) == { hs[i].lit : i \in DOMAIN hs }

\* the headings of hs that are in the set keep, in the order of hs
Restrict(hs, keep) == [ i \in DOMAIN SelectSeq(hs, LAMBDA h : h.lit \in keep) |->
                          SelectSeq(hs, LAMBDA h : h.lit \in keep)[i].lit ]

\* C1: once a record has been rendered both ways, every reportable field shows one
\* value in the PDF and the same value in the preview, and the sections the two
\* renderings share come in the same order.
C1_SameContent ==
    (Ran("generate_pdf") /\ Ran("render_report_preview")) =>
        /\ \A k \in RenderedKeys :
              LET shown == PdfShown(k) IN
              /\ Cardinality(shown) = 1
              /\ shown = PreviewShown(k)
        /\ LET shared == HeadingNames(PdfHeadings) \cap HeadingNames(PreviewHeadings)
           IN  /\ shared # {}
               /\ Restrict(PdfHeadings, shared) = Restrict(PreviewHeadings, shared)

\* a record with a NaN impairment summary has been rendered both ways, and both
\* show the client's name and the placeholder
C1_Witness ==
    /\ Ran("generate_pdf") /\ Ran("render_report_preview")
    /\ "impairments_summary" \in DOMAIN data_row
    /\ data_row["impairments_summary"] = PyNaN
    /\ PdfShown("impairments_summary") = {NotAvailable}
    /\ PreviewShown("impairments_summary") = {NotAvailable}
    /\ PreviewShown("client_name") = {<<"J","a","n","e"," ","D","o","e">>}

IsMissing(k) == k \notin DOMAIN data_row \/ pd_isna(data_row[k])

AllSections == {"CLIENT INFORMATION", "DISCUSSION TOPICS", "SUMMARIES", "RISK FLAGS"}

\* C2: whichever fields of a record are absent, None or NaN, both renderings emit
\* every section and show exactly "Not available" for each such field.
C2_MissingShowsPlaceholder ==
    /\ Ran("generate_pdf") =>
          /\ AllSections \subseteq HeadingNames(PdfHeadings)
          /\ \A k \in RenderedKeys : IsMissing(k) => PdfShown(k) = {NotAvailable}
    /\ Ran("render_report_preview") =>
          /\ AllSections \subseteq HeadingNames(PreviewHeadings)
          /\ \A k \in RenderedKeys : IsMissing(k) => PreviewShown(k) = {NotAvailable}

\* the record carries flag k, and its value is v
FlagIs(k, v) == k \in DOMAIN data_row /\ data_row[k] = v

\* housing_risk_flag is None or NaN and the other two flags are False
HousingMissingOthersFalse ==
    /\ FlagIs("housing_risk_flag", PyNone) \/ FlagIs("housing_risk_flag", PyNaN)
    /\ FlagIs("impairment_risk_flag", PyBool(FALSE))
    /\ FlagIs("mmh_risk_flag", PyBool(FALSE))

AllRan == Ran("generate_pdf") /\ Ran("render_report_preview") /\ Ran("get_risk_level")

Contains(s, t) == \E i \in 0..(Len(s) - Len(t)) : SubSeq(s, i + 1, i + Len(t)) = t

\* the PDF has a paragraph or a table cell whose text holds t
PdfHasText(t) ==
    \E i \in DOMAIN pdf :
        \/ Contains(pdf[i].val, t)
        \/ \E r \in DOMAIN pdf[i].rows : \E c \in DOMAIN pdf[i].rows[r] :
              Contains(pdf[i].rows[r][c].val, t)

\* the preview has a call whose text holds t
PreviewHasText(t) == \E i \in DOMAIN preview : Contains(preview[i].val, t)

\* housing and mmh flags True, impairment flag False
TwoFlagsTrue ==
    /\ FlagIs("housing_risk_flag", PyBool(TRUE))
    /\ FlagIs("impairment_risk_flag", PyBool(FALSE))
    /\ FlagIs("mmh_risk_flag", PyBool(TRUE))

---------------------------------------------------------------------------
(* Claims about the order of the PDF *)

\* the flowables that open a part of the PDF: the title, a section heading, the footer
PdfMarks ==
    SelectSeq(pdf, LAMBDA f : f.style \in {"title_style", "section_header_style",
                                            "footer_style"})

\* where the part opened by the text t starts in the story (0: nowhere)
PdfStart(t) ==
    LET at == { i \in 1..Len(pdf) : pdf[i].flowable = "Paragraph" /\ pdf[i].lit = t }
    IN  IF at = {} THEN 0 ELSE CHOOSE i \in at : \A j \in at : i <= j

\* C13 as stated: the PDF runs title, client identity, risk block, discussion
\* topics, summaries, footer.
C13_AsStated ==
    Ran("generate_pdf") =>
        /\ 0 < PdfStart("CLIENT BACKGROUND REPORT")
        /\ PdfStart("CLIENT BACKGROUND REPORT") < PdfStart("CLIENT INFORMATION")
        /\ PdfStart("CLIENT INFORMATION") < PdfStart("RISK FLAGS")
        /\ PdfStart("RISK FLAGS") < PdfStart("DISCUSSION TOPICS")
        /\ PdfStart("DISCUSSION TOPICS") < PdfStart("SUMMARIES")
        /\ PdfStart("SUMMARIES") < PdfStart("Generated by Plunket AI Model.")

\* C13: the PDF runs title, CLIENT INFORMATION, DISCUSSION TOPICS, SUMMARIES,
\* RISK FLAGS, footer: these six parts, once each, with the risk block after the
\* summaries.
C13_SectionOrder ==
    Ran("generate_pdf") =>
        /\ [i \in 1..Len(PdfMarks) |-> PdfMarks[i].lit] =
              << "CLIENT BACKGROUND REPORT", "CLIENT INFORMATION", "DISCUSSION TOPICS",
                 "SUMMARIES", "RISK FLAGS", "Generated by Plunket AI Model." >>
        /\ pdf[1].flowable = "PDFHeader"
        /\ pdf[Len(pdf)].style = "footer_style"

\* the PDF of a record has been built and its risk block starts after the summaries
C13_Witness ==
    /\ Ran("generate_pdf")
    /\ PdfStart("SUMMARIES") > 0
    /\ PdfStart("RISK FLAGS") > PdfStart("SUMMARIES")
    /\ pdf[PdfStart("RISK FLAGS") - 1].flowable = "HRFlowable"

---------------------------------------------------------------------------
(* Claims about rendering a record twice *)

RenderedTwice == Ran("generate_pdf_again") /\ Ran("render_report_preview_again")

---------------------------------------------------------------------------
(* Claims about the page *)

\* the search results hold at least one row
HasRows == search_results # <<>> /\ search_results[1] # <<>>

\* the positions of the ticked entries of a mask
Ticked(mask) == { i \in DOMAIN mask : mask[i] }

\* C14 as stated: when generate_pdf fails for the record of the selected row, no
\* PDF is offered, and the preview of that record asked for in the same run is
\* still stored and rendered.
C14_BackendFailure ==
    (pc = "idle" /\ "exception" \in on_page /\ data_row # NoRow) =>
        /\ pdf = <<>>
        /\ "download_button" \notin on_page
        /\ (preview_clicked /\ report_before = <<>>) =>
              /\ report_data = <<data_row>>
              /\ "preview" \in on_page
              /\ preview = render_report_preview(data_row)

\* C16: between script runs, with rows in the results, the mask has one entry per
\* row and at most one of them True, selected_row_index is None exactly when none
\* is True and otherwise the index of the True one; and when an edit leaves more
\* than one box ticked, the row kept is the last one whose box the edit changed.
C16_SingleSelection ==
    /\ []((pc \in {"idle", "search"} /\ HasRows) =>
            /\ Len(selection_mask) = Len(search_results[1])
            /\ Cardinality(Ticked(selection_mask)) <= 1
            /\ (selected_row_index = <<>>) <=> (Ticked(selection_mask) = {})
            /\ selected_row_index # <<>> =>
                  Ticked(selection_mask) = {selected_row_index[1] + 1})
    /\ [][(pc = "results" /\ HasRows /\ Cardinality(Ticked(edited_mask')) > 1) =>
            LET changed == { i \in DOMAIN edited_mask' :
                               selection_mask[i] # edited_mask'[i] }
            IN  /\ changed # {}
                /\ \E k \in changed :
                      /\ \A j \in changed : j <= k
                      /\ selected_row_index' = <<k - 1>>
                      /\ Ticked(selection_mask') = {k}
                /\ pc' = "search"]_vars

\* the first row was ticked, the edit ticked the second as well, and the second
\* is the row kept
C16_Witness ==
    /\ pc = "search"
    /\ HasRows
    /\ edited_mask = <<TRUE, TRUE>>
    /\ selection_mask = <<FALSE, TRUE>>
    /\ selected_row_index = <<1>>

\* C17: a Search click with a criterion filled in stores the query result, clears
\* the selected index and the stored report and leaves a mask of one False per
\* row; a Search click with the three criteria empty shows the error and changes
\* none of the four.
C17_SearchClick ==
    [][(pc = "search" /\ search_clicked) =>
         IF client_name_input # <<>> \/ client_nhi_input # <<>> \/ report_date_input # <<>>
         THEN /\ df' # <<>>
              /\ search_results' = df'
              /\ selected_row_index' = <<>>
              /\ report_data' = <<>>
              /\ Len(selection_mask') = Len(df'[1])
              /\ Ticked(selection_mask') = {}
         ELSE /\ "search_error" \in on_page'
              /\ UNCHANGED sessionVars]_vars

\* a search by name has returned rows while a report was stored: the report and
\* the selection are gone
C17_Witness ==
    /\ pc = "results"
    /\ search_clicked
    /\ client_name_input = <<"J","a","n","e">>
    /\ report_before # <<>>
    /\ df # <<>> /\ df[1] # <<>>
    /\ search_results = df
    /\ selected_row_index = <<>>
    /\ report_data = <<>>
    /\ selection_mask = AllFalse(Len(df[1]))

\* C18: at the end of a run started by a Preview Report click with a row selected,
\* the stored report has flipped when the report of the row was loaded (set to
\* that report if none was stored, cleared if one was) and is as before when the
\* load returned no rows; a run started by an edit of the table leaves it as it was.
C18_PreviewToggle ==
    pc = "idle" =>
        /\ (preview_clicked /\ has_selection /\ report_df # <<>>) =>
              report_data = (IF report_before # <<>> THEN <<>> ELSE <<report_df[1]>>)
        /\ (preview_clicked /\ has_selection /\ report_df = <<>>) =>
              report_data = report_before
        /\ (~preview_clicked /\ ~search_clicked) => report_data = report_before
====
